---------------------------- MODULE Spec2Model ----------------------------
(***************************************************************************)
(* Model of the data-cron-job processing scripts:                          *)
(*   scripts/process_data_with_advanced_viz.py  ("viz")                    *)
(*   scripts/process_data_advanced.py           ("adv")                    *)
(*                                                                         *)
(* The scripts are sequential.  Four specifications look at them:          *)
(*   SpecBatch   the batch loop of main(): discovery, one process_csv call *)
(*               per discovered file, report generation, exit status;      *)
(*   SpecChunk   the chunk loop of process_csv at row-count level, with    *)
(*               the constants of the source (chunk size, sampling rate,   *)
(*               reservoir test, row limits);                              *)
(*   SpecStats   the same chunk loop at value level: the streaming         *)
(*               aggregates of one numeric column over short chunks;       *)
(*   SpecDialect the separator and encoding detection of process_csv.      *)
(* Every specification leaves the variables of the others at their idle    *)
(* values.                                                                 *)
(***************************************************************************)
EXTENDS Integers, Sequences, FiniteSets, TLC

VARIABLES
    \* ---- main(): the batch loop
    script,            \* which script's main() runs: "viz" or "adv"
    files_to_process,  \* discovery result: sequence of file records, in dict order
    idx,               \* number of loop iterations completed
    results,           \* the results list
    calls,             \* max_rows handed to each process_csv call, in call order
    pc,                \* position of main(): "start", "loop", "report", "returned", "raised"
    exit_status        \* value returned by main(); NoneVal while running / when raised

batchVars == <<script, files_to_process, idx, results, calls, pc, exit_status>>

VARIABLES
    \* ---- process_csv, chunked path, at row-count level
    cscript,           \* which script's process_csv runs: "viz", "adv" ("idle": none)
    file_size,         \* os.path.getsize(file_path), in bytes
    file_rows,         \* number of data rows in the file
    max_rows,          \* the max_rows parameter / local of process_csv
    cpc,               \* "begin", "loop", "after", "full", "done" ("idle": not running)
    chunk_count,       \* chunks read
    total_rows,        \* rows read
    sampled_rows,      \* the list of per-chunk samples, each given by its row count
    row_count,         \* reported "lignes"; NoneVal until computed
    df_sample_len,     \* len(df_sample) after pd.concat(sampled_rows); NoneVal until computed
    df_len             \* len(df), the table handed to the analysis; NoneVal until computed

chunkVars == <<cscript, file_size, file_rows, max_rows, cpc, chunk_count, total_rows,
               sampled_rows, row_count, df_sample_len, df_len>>

VARIABLES
    \* ---- process_csv, chunked path, at value level (one numeric column)
    col_cells,         \* the column in the file: a sequence of integers and NaN
    chunk_rows,        \* rows per chunk (stands for chunk_size)
    stats_data,        \* stats_data[col]: sum, sum_sq, count, min, max
    stats              \* stats[col] after the loop; NoStats until computed / if count = 0

statVars == <<col_cells, chunk_rows, stats_data, stats>>

VARIABLES
    \* ---- process_csv, detection of the separator and of the encoding
    file_bytes,        \* the bytes of the file
    dpc,               \* "sniff", "encoding", "read", "done" ("idle": not running)
    sample,            \* the text read for the separator detection
    likely_sep,        \* the separator detected; "" until computed
    encoding_used,     \* the encoding detected; "" until computed
    encoding_fallback, \* TRUE iff no candidate encoding was accepted
    read_outcome       \* of pd.read_csv(..., encoding=encoding_used): "", "ok", "UnicodeDecodeError"

dialectVars == <<file_bytes, dpc, sample, likely_sep, encoding_used,
                 encoding_fallback, read_outcome>>

VARIABLES
    \* ---- process_csv on a file read in full, at the level of its lines
    in_file,           \* the file: lines, kind of cells, kind of bytes, size
    ipc,               \* "detect", "read", "optimize", "analyze", "save", "done" ("idle")
    i_encoding,        \* encoding_used; "" until computed
    df_rows,           \* len(df); NoneVal until read
    bad_lines,         \* lines the parser dropped with a warning on stderr
    data_analysis,     \* visualisations listed by analyze_and_visualize_data
    payload,           \* the value returned; NoPayload until returned
    disk,              \* the files in the processed and visualization directories
    disk_before        \* the same set when process_csv was called

ingestVars == <<in_file, ipc, i_encoding, df_rows, bad_lines, data_analysis, payload,
                disk, disk_before>>

VARIABLES
    \* ---- the detection of process_csv run on two files
    pair_files,        \* the bytes of the two files
    ppc,               \* "detect", "done" ("idle")
    pair_sep,          \* likely_sep of each file; "" until computed
    pair_enc           \* encoding_used of each file; "" until computed

pairVars == <<pair_files, ppc, pair_sep, pair_enc>>

VARIABLES
    \* ---- process_data.py: get_latest_files and main
    raw_dir,           \* the files of RAW_DIR, in the order glob returns them
    lpc,               \* "select", "loop", "report", "returned" ("idle")
    latest_files,      \* the dict returned by get_latest_files, in insertion order
    l_idx,             \* entries of latest_files iterated
    l_results          \* the results list of main()

legacyVars == <<raw_dir, lpc, latest_files, l_idx, l_results>>

VARIABLES
    \* ---- process_data_advanced.py: one run of main()
    run_raw,           \* today's files of RAW_DIR, in the order glob returns them
    run_old,           \* the artifacts on disk when the run starts
    run_disk,          \* the artifacts on disk
    run_latest,        \* the dict returned by get_latest_files, in insertion order
    run_idx,           \* entries of run_latest iterated
    run_results,       \* the results list of main()
    run_report,        \* the artifacts the report references
    rpc                \* "select", "loop", "report", "returned" ("idle")

runVars == <<run_raw, run_old, run_disk, run_latest, run_idx, run_results, run_report, rpc>>

VARIABLES
    \* ---- process_data.py: generate_report applied to a results list
    rn_results,        \* the results list
    rn_rows,           \* the table rows written to the report
    rn_pc              \* "render", "done" ("idle")

renderVars == <<rn_results, rn_rows, rn_pc>>

VARIABLES
    \* ---- process_data.py: the end of main()
    l_report,          \* what generate_report returned: "", "path", "None"
    l_exit             \* the value main() returned; NoneVal while running / when raised

exitVars == <<l_report, l_exit>>

VARIABLES
    \* ---- optimize_dataframe on one integer column
    opt_col,           \* the values of the column
    opt_dtype,         \* the dtype selected; "" until computed
    opt_cast,          \* the values of the column after astype
    opc                \* "optimize", "done" ("idle")

optVars == <<opt_col, opt_dtype, opt_cast, opc>>

VARIABLES
    \* ---- send_discord_with_charts.py: main()
    d_env,             \* arguments, charts of the report directory, HTTP outcomes
    d_chart,           \* chart_path: "", "argument" or "found"
    d_post,            \* status of the message post; NoneVal: not posted
    d_exit,            \* exit status; NoneVal: none (running, or ended by an exception)
    d_pc               \* "start", "send", "exited", "raised" ("idle")

discordVars == <<d_env, d_chart, d_post, d_exit, d_pc>>

VARIABLES
    \* ---- send_email.py: send_email
    e_env,             \* the outcomes of the calls send_email makes
    e_sendmail,        \* the sendmail attempt: "", "ok", "nonzero", "raised"
    e_written,         \* the fallback files written by this call
    e_ret,             \* the value returned: "", "True", "False"
    e_pc               \* "build", "sendmail", "fallback", "returned", "raised" ("idle")

emailVars == <<e_env, e_sendmail, e_written, e_ret, e_pc>>

newVars == <<runVars, renderVars, exitVars, optVars, discordVars, emailVars>>

vars == <<batchVars, chunkVars, statVars, dialectVars, ingestVars, pairVars, legacyVars,
          newVars>>

\* Python's None, where a number is expected (max_rows=None, a value not yet
\* computed): no number of the program is negative where None can stand.
NoneVal == -1

\* 1 MB as used in file_size_mb = getsize / (1024 * 1024)
MB == 1024 * 1024

(***************************************************************************)
(* Bounds of the batch model                                               *)
(***************************************************************************)
MaxFiles == 3

(***************************************************************************)
(* main(): discovery, batch loop, report                                   *)
(* A discovered file is a record                                           *)
(*   prefix  its key in the discovery dict (keys are distinct),            *)
(*   exists  os.path.getsize succeeds on it (FALSE: a dangling symlink     *)
(*           matched by the glob, or a file removed after discovery),      *)
(*   size    its size in bytes,                                            *)
(*   fault   some statement in the body of process_csv raises on it        *)
(*           (unreadable, empty, unparsable, ...).                         *)
(***************************************************************************)
\* File sizes around the thresholds of main() and process_csv, in bytes.
BatchSizes == {1, 200 * MB, 200 * MB + 1, 500 * MB + 1, 1000 * MB + 1}

BatchFileKinds ==
    {[exists |-> FALSE, size |-> 0, fault |-> FALSE]}
    \cup [exists : {TRUE}, size : BatchSizes, fault : BOOLEAN]

\* What find_files_to_process / get_latest_files can return: a dict, hence
\* distinct keys; the i-th entry gets prefix i.
Discoveries ==
    UNION {[1..n -> BatchFileKinds] : n \in 0..MaxFiles}

WithPrefix(d) ==
    [i \in DOMAIN d |-> [prefix |-> i, exists |-> d[i].exists,
                          size |-> d[i].size, fault |-> d[i].fault]]

\* main() of the viz script: max_rows = None; if file_size_mb > 200: max_rows = 100000
MainRowLimit == 100000

\* Mutant of MainMaxRows: the limit is set above 500 MB only.
MainMaxRowsAbove500(f) ==
    IF f.size > 500 * MB THEN MainRowLimit ELSE NoneVal

MainMaxRows(f) ==
    IF f.size > 200 * MB THEN MainRowLimit ELSE NoneVal

\* process_csv seen from main(): the whole body is inside try/except Exception,
\* os.path.getsize included, and every exception becomes {"erreur": str(e)}.
ErrorPayload == [erreur |-> "str(e)"]

SuccessPayload(f) == [fichier |-> f.prefix, taille |-> f.size]

process_csv_result(f) ==
    IF ~f.exists \/ f.fault THEN ErrorPayload ELSE SuccessPayload(f)

IsErrorPayload(r) == "erreur" \in DOMAIN r

IsSuccessPayload(r) == "fichier" \in DOMAIN r

ChunkIdle ==
    /\ cscript = "idle"
    /\ file_size = 0
    /\ file_rows = 0
    /\ max_rows = NoneVal
    /\ cpc = "idle"
    /\ chunk_count = 0
    /\ total_rows = 0
    /\ sampled_rows = <<>>
    /\ row_count = NoneVal
    /\ df_sample_len = NoneVal
    /\ df_len = NoneVal

\* float('inf') and float('-inf'): beyond every cell of the model
PosInf == 1000000000

NegInf == -1000000000

\* A missing value (NaN) in a column
NaN == -999999999

StatsDataInit == [sum |-> 0, sum_sq |-> 0, count |-> 0, min |-> PosInf, max |-> NegInf]

\* No entry in the stats dict
NoStats == [count |-> 0]

DialectIdle ==
    /\ file_bytes = <<>>
    /\ dpc = "idle"
    /\ sample = <<>>
    /\ likely_sep = ""
    /\ encoding_used = ""
    /\ encoding_fallback = FALSE
    /\ read_outcome = ""

NoPayload == [pending |-> TRUE]

RunIdle ==
    /\ run_raw = <<>> /\ run_old = {} /\ run_disk = {} /\ run_latest = <<>>
    /\ run_idx = 0 /\ run_results = <<>> /\ run_report = {} /\ rpc = "idle"

RenderIdle == rn_results = <<>> /\ rn_rows = <<>> /\ rn_pc = "idle"

ExitIdle == l_report = "" /\ l_exit = NoneVal

OptIdle == opt_col = <<>> /\ opt_dtype = "" /\ opt_cast = <<>> /\ opc = "idle"

DiscordIdle ==
    d_env = <<>> /\ d_chart = "" /\ d_post = "" /\ d_exit = NoneVal /\ d_pc = "idle"

EmailIdle ==
    e_env = <<>> /\ e_sendmail = "" /\ e_written = {} /\ e_ret = "" /\ e_pc = "idle"

NewIdle == RunIdle /\ RenderIdle /\ ExitIdle /\ OptIdle /\ DiscordIdle /\ EmailIdle

IngestIdle ==
    /\ in_file = <<>>
    /\ ipc = "idle"
    /\ i_encoding = ""
    /\ df_rows = NoneVal
    /\ bad_lines = 0
    /\ data_analysis = {}
    /\ payload = NoPayload
    /\ disk = {}
    /\ disk_before = {}

PairIdle ==
    /\ pair_files = <<>>
    /\ ppc = "idle"
    /\ pair_sep = <<>>
    /\ pair_enc = <<>>

LegacyIdle ==
    /\ raw_dir = <<>>
    /\ lpc = "idle"
    /\ latest_files = <<>>
    /\ l_idx = 0
    /\ l_results = <<>>

StatIdle ==
    /\ col_cells = <<>>
    /\ chunk_rows = 0
    /\ stats_data = StatsDataInit
    /\ stats = NoStats

BatchInit ==
    /\ NewIdle
    /\ IngestIdle
    /\ PairIdle
    /\ LegacyIdle
    /\ ChunkIdle
    /\ StatIdle
    /\ DialectIdle
    /\ script \in {"viz", "adv"}
    /\ files_to_process \in {WithPrefix(d) : d \in Discoveries}
    /\ idx = 0
    /\ results = <<>>
    /\ calls = <<>>
    /\ pc = "start"
    /\ exit_status = NoneVal

\* if not files_to_process: return 1
MainStart ==
    /\ pc = "start"
    /\ IF Len(files_to_process) = 0
         THEN pc' = "returned" /\ exit_status' = 1
         ELSE pc' = "loop" /\ UNCHANGED exit_status
    /\ UNCHANGED <<script, files_to_process, idx, results, calls>>
    /\ UNCHANGED <<chunkVars, statVars, dialectVars, ingestVars, pairVars, legacyVars, newVars>>

\* One iteration of "for prefix, file_path in files_to_process.items()".
\* viz: os.path.getsize(file_path) is evaluated in main(), outside any try.
MainIterate ==
    /\ pc = "loop"
    /\ idx < Len(files_to_process)
    /\ LET f == files_to_process[idx + 1] IN
         IF script = "viz" /\ ~f.exists
         THEN /\ pc' = "raised"
              /\ UNCHANGED <<idx, results, calls>>
         ELSE /\ calls' = Append(calls,
                     [prefix |-> f.prefix,
                      max_rows |-> IF script = "viz" THEN MainMaxRows(f) ELSE NoneVal])
              /\ results' = Append(results, process_csv_result(f))
              /\ idx' = idx + 1
              /\ pc' = "loop"
    /\ UNCHANGED <<script, files_to_process, exit_status>>
    /\ UNCHANGED <<chunkVars, statVars, dialectVars, ingestVars, pairVars, legacyVars, newVars>>

\* After the loop: report generation returns a path or None (its own
\* try/except), and main returns 0 or 1 accordingly.
MainReport ==
    /\ pc = "loop"
    /\ idx = Len(files_to_process)
    /\ \E report_ok \in BOOLEAN :
           exit_status' = IF report_ok THEN 0 ELSE 1
    /\ pc' = "returned"
    /\ UNCHANGED <<script, files_to_process, idx, results, calls>>
    /\ UNCHANGED <<chunkVars, statVars, dialectVars, ingestVars, pairVars, legacyVars, newVars>>

BatchNext == MainStart \/ MainIterate \/ MainReport

SpecBatch == BatchInit /\ [][BatchNext]_vars

BatchEnded == pc \in {"returned", "raised"}

FileFails(f) == ~f.exists \/ f.fault

\* C1: when a batch run ends, the results list holds exactly one entry per
\* discovered file, each a success payload or an error payload.
C1_OneEntryPerFile ==
    BatchEnded /\ Len(files_to_process) > 0 =>
        /\ Len(results) = Len(files_to_process)
        /\ \A i \in 1..Len(results) :
               IsErrorPayload(results[i]) \/ IsSuccessPayload(results[i])

\* C2: a file-level failure becomes that file's error payload and never
\* leaves the batch loop: every file after the failing one is still processed.
C2_FailureIsolated ==
    BatchEnded =>
        \A i \in 1..Len(files_to_process) :
            FileFails(files_to_process[i]) =>
                /\ i <= Len(results)
                /\ IsErrorPayload(results[i])
                /\ \A j \in (i + 1)..Len(files_to_process) :
                       \E k \in 1..Len(calls) :
                           calls[k].prefix = files_to_process[j].prefix

(***************************************************************************)
(* process_csv, chunked path, at row-count level                           *)
(***************************************************************************)
BatchIdle ==
    /\ script = "idle"
    /\ files_to_process = <<>>
    /\ idx = 0
    /\ results = <<>>
    /\ calls = <<>>
    /\ pc = "idle"
    /\ exit_status = NoneVal

\* Largest file of the row-count model, in chunks of the viz script.
MaxChunks == 52

\* viz: chunk_size = 100000
chunk_size == 100000

\* viz: sampling_rate = 0.01, as the denominator of the fraction 1/100
sampling_den == 100

\* viz: "if len(sampled_rows) < 50000"
sample_list_limit == 50000

\* viz: the row limit set when file_size_mb > 500 and max_rows is None
default_max_rows == 1000000

\* adv: chunk_size = 1000 and "if total_rows >= 1000000: break"
adv_chunk_size == 1000

adv_row_limit == 1000000

Min(a, b) == IF a <= b THEN a ELSE b

\* Python's round() of num/den for num, den >= 0: ties go to the even integer.
RoundHalfEven(num, den) ==
    LET q == num \div den
        r == num % den
    IN  IF 2 * r < den THEN q
        ELSE IF 2 * r > den THEN q + 1
        ELSE IF q % 2 = 0 THEN q ELSE q + 1

\* len(chunk.sample(frac=sampling_rate)): pandas draws round(frac * len(chunk)) rows.
SampleLen(rows_in_chunk) == RoundHalfEven(rows_in_chunk, sampling_den)

\* Mutant of LimitReached: the limit test is strict.
LimitReachedStrict(mr, total) == mr # NoneVal /\ mr # 0 /\ total > mr

\* Mutant of LimitReached: the loop never stops at the limit.
LimitNever(mr, total) == FALSE

\* "if max_rows and total_rows >= max_rows": None and 0 are both falsy.
LimitReached(mr, total) == mr # NoneVal /\ mr # 0 /\ total >= mr

\* Row counts of the files read by the viz chunk loop.
VizFileRows ==
    {k * chunk_size + r : k \in 0..MaxChunks, r \in {0, 1, 50, 150}} \ {0}

\* Values of the max_rows parameter: None, and multiples of half a chunk.
MaxRowsArgs ==
    {NoneVal} \cup {k * (chunk_size \div 2) : k \in 0..(2 * MaxChunks + 2)}

\* Row counts of the files read by the adv chunk loop.
AdvFileRows ==
    {1, adv_chunk_size, adv_chunk_size + 1, adv_row_limit - 1, adv_row_limit,
     adv_row_limit + 1, adv_row_limit + adv_chunk_size + 1}

\* viz: "if file_size_mb > 1000" selects the chunked path
chunk_threshold_mb == 1000

\* viz: "if file_size_mb > 500 and max_rows is None"
big_file_mb == 500

\* adv: "if file_size_mb > 100" selects the chunked path
adv_chunk_threshold_mb == 100

\* adv: "if len(df) > 10000: df = df.sample(n=10000, random_state=42)"
adv_sample_cap == 10000

\* Mutant of ChunkedPath: a file of exactly the threshold size is read in chunks.
ChunkedPathInclusive(scr, size) ==
    IF scr = "adv" THEN size >= adv_chunk_threshold_mb * MB
    ELSE size >= chunk_threshold_mb * MB

\* The branch taken by process_csv: file_size_mb > threshold.
ChunkedPath(scr, size) ==
    IF scr = "adv" THEN size > adv_chunk_threshold_mb * MB
    ELSE size > chunk_threshold_mb * MB

\* File sizes around the thresholds of main() and process_csv, in bytes (the
\* smallest one is large enough for every row count of FullFileRows).
IngestSizes(scr) ==
    IF scr = "adv"
    THEN {10 * MB, adv_chunk_threshold_mb * MB, adv_chunk_threshold_mb * MB + 1}
    ELSE {10 * MB, 200 * MB + 1, big_file_mb * MB + 1, chunk_threshold_mb * MB,
          chunk_threshold_mb * MB + 1}

\* Row counts of the files loaded in full: around the caps and limits.
FullFileRows ==
    {0, 1, adv_sample_cap, adv_sample_cap + 1, MainRowLimit, MainRowLimit + 1,
     default_max_rows, default_max_rows + 1}

\* Values of max_rows on the full-load path: None, and what main() passes.
FullMaxRowsArgs == {NoneVal, MainRowLimit}

ChunkInit ==
    /\ NewIdle
    /\ IngestIdle
    /\ PairIdle
    /\ LegacyIdle
    /\ BatchIdle
    /\ StatIdle
    /\ DialectIdle
    /\ cscript \in {"viz", "adv"}
    /\ file_size \in IngestSizes(cscript)
    /\ file_rows \in (IF ~ChunkedPath(cscript, file_size) THEN FullFileRows
                      ELSE IF cscript = "viz" THEN VizFileRows ELSE AdvFileRows)
    /\ max_rows \in (IF cscript = "adv" THEN {NoneVal}
                     ELSE IF ChunkedPath(cscript, file_size) THEN MaxRowsArgs
                     ELSE FullMaxRowsArgs)
    /\ cpc = "begin"
    /\ chunk_count = 0
    /\ total_rows = 0
    /\ sampled_rows = <<>>
    /\ row_count = NoneVal
    /\ df_sample_len = NoneVal
    /\ df_len = NoneVal

\* viz, up to the branch on the file size: above 500 MB a max_rows of None
\* becomes 1000000; above 1000 MB the chunk loop is set up, otherwise the file
\* is loaded in full.
VizChunkBegin ==
    /\ cscript = "viz"
    /\ cpc = "begin"
    /\ max_rows' = IF file_size > big_file_mb * MB /\ max_rows = NoneVal
                   THEN default_max_rows ELSE max_rows
    /\ chunk_count' = 0
    /\ total_rows' = 0
    /\ sampled_rows' = <<>>
    /\ cpc' = IF ChunkedPath("viz", file_size) THEN "loop" ELSE "full"
    /\ UNCHANGED df_len
    /\ UNCHANGED <<cscript, file_size, file_rows, row_count, df_sample_len>>
    /\ UNCHANGED <<batchVars, statVars, dialectVars, ingestVars, pairVars, legacyVars, newVars>>

\* pd.read_csv(..., nrows=n): at most n rows, all rows when n is None.
ReadRows(rows, nrows) == IF nrows = NoneVal THEN rows ELSE Min(rows, nrows)

\* viz, the full-load branch: df = pd.read_csv(..., nrows=max_rows);
\* df = optimize_dataframe(df); row_count = len(df)
VizFullLoad ==
    /\ cscript = "viz"
    /\ cpc = "full"
    /\ df_len' = ReadRows(file_rows, max_rows)
    /\ row_count' = ReadRows(file_rows, max_rows)
    /\ cpc' = "done"
    /\ UNCHANGED <<cscript, file_size, file_rows, max_rows, chunk_count, total_rows,
                   sampled_rows, df_sample_len>>
    /\ UNCHANGED <<batchVars, statVars, dialectVars, ingestVars, pairVars, legacyVars, newVars>>

\* viz, one iteration of "for chunk in pd.read_csv(..., chunksize=chunk_size)":
\* the reader yields the next chunk_size rows (fewer at the end of the file).
VizChunkRead ==
    /\ cscript = "viz"
    /\ cpc = "loop"
    /\ total_rows < file_rows
    /\ LET rows_in_chunk == Min(chunk_size, file_rows - total_rows)
           total == total_rows + rows_in_chunk
       IN  /\ chunk_count' = chunk_count + 1
           /\ total_rows' = total
           /\ sampled_rows' =
                  IF Len(sampled_rows) < sample_list_limit
                  THEN Append(sampled_rows, SampleLen(rows_in_chunk))
                  ELSE sampled_rows
           /\ cpc' = IF LimitReached(max_rows, total) THEN "after" ELSE "loop"
    /\ UNCHANGED df_len
    /\ UNCHANGED <<cscript, file_size, file_rows, max_rows, row_count, df_sample_len>>
    /\ UNCHANGED <<batchVars, statVars, dialectVars, ingestVars, pairVars, legacyVars, newVars>>

\* viz, the reader is exhausted: the for loop ends.
VizChunkExhausted ==
    /\ cscript = "viz"
    /\ cpc = "loop"
    /\ total_rows = file_rows
    /\ cpc' = "after"
    /\ UNCHANGED df_len
    /\ UNCHANGED <<cscript, file_size, file_rows, max_rows, chunk_count, total_rows,
                   sampled_rows, row_count, df_sample_len>>
    /\ UNCHANGED <<batchVars, statVars, dialectVars, ingestVars, pairVars, legacyVars, newVars>>

RECURSIVE SeqSum(_)
SeqSum(s) == IF s = <<>> THEN 0 ELSE Head(s) + SeqSum(Tail(s))

\* viz, after the loop: df_sample = pd.concat(sampled_rows); df = df_sample;
\* row_count = total_rows
VizChunkFinish ==
    /\ cscript = "viz"
    /\ cpc = "after"
    /\ df_sample_len' = SeqSum(sampled_rows)
    /\ row_count' = total_rows
    /\ cpc' = "done"
    /\ df_len' = SeqSum(sampled_rows)
    /\ UNCHANGED <<cscript, file_size, file_rows, max_rows, chunk_count, total_rows, sampled_rows>>
    /\ UNCHANGED <<batchVars, statVars, dialectVars, ingestVars, pairVars, legacyVars, newVars>>

\* adv, the whole chunked branch: chunks of 1000 rows are appended until the
\* reader is exhausted or total_rows >= 1000000; df = pd.concat(chunks);
\* row_count = len(df).
AdvChunkBegin ==
    /\ cscript = "adv"
    /\ cpc = "begin"
    /\ total_rows' = 0
    /\ chunk_count' = 0
    /\ cpc' = IF ChunkedPath("adv", file_size) THEN "loop" ELSE "full"
    /\ UNCHANGED df_len
    /\ UNCHANGED <<cscript, file_size, file_rows, max_rows, sampled_rows, row_count, df_sample_len>>
    /\ UNCHANGED <<batchVars, statVars, dialectVars, ingestVars, pairVars, legacyVars, newVars>>

\* df.sample(n=cap) when len(df) > cap
CapRows(n, cap) == IF n > cap THEN cap ELSE n

\* adv, the full-load branch: df = pd.read_csv(file_path); a table of more
\* than 10000 rows is replaced by a sample of 10000; row_count = len(df)
AdvFullLoad ==
    /\ cscript = "adv"
    /\ cpc = "full"
    /\ df_len' = CapRows(file_rows, adv_sample_cap)
    /\ row_count' = CapRows(file_rows, adv_sample_cap)
    /\ cpc' = "done"
    /\ UNCHANGED <<cscript, file_size, file_rows, max_rows, chunk_count, total_rows,
                   sampled_rows, df_sample_len>>
    /\ UNCHANGED <<batchVars, statVars, dialectVars, ingestVars, pairVars, legacyVars, newVars>>

AdvChunkRead ==
    /\ cscript = "adv"
    /\ cpc = "loop"
    /\ total_rows < file_rows
    /\ LET rows_in_chunk == Min(adv_chunk_size, file_rows - total_rows)
           total == total_rows + rows_in_chunk
       IN  /\ chunk_count' = chunk_count + 1
           /\ total_rows' = total
           /\ cpc' = IF total >= adv_row_limit THEN "after" ELSE "loop"
    /\ UNCHANGED df_len
    /\ UNCHANGED <<cscript, file_size, file_rows, max_rows, sampled_rows, row_count, df_sample_len>>
    /\ UNCHANGED <<batchVars, statVars, dialectVars, ingestVars, pairVars, legacyVars, newVars>>

AdvChunkExhausted ==
    /\ cscript = "adv"
    /\ cpc = "loop"
    /\ total_rows = file_rows
    /\ cpc' = "after"
    /\ UNCHANGED df_len
    /\ UNCHANGED <<cscript, file_size, file_rows, max_rows, chunk_count, total_rows,
                   sampled_rows, row_count, df_sample_len>>
    /\ UNCHANGED <<batchVars, statVars, dialectVars, ingestVars, pairVars, legacyVars, newVars>>

AdvChunkFinish ==
    /\ cscript = "adv"
    /\ cpc = "after"
    /\ row_count' = total_rows
    /\ cpc' = "done"
    /\ df_len' = total_rows
    /\ UNCHANGED <<cscript, file_size, file_rows, max_rows, chunk_count, total_rows,
                   sampled_rows, df_sample_len>>
    /\ UNCHANGED <<batchVars, statVars, dialectVars, ingestVars, pairVars, legacyVars, newVars>>

ChunkNext ==
    \/ VizChunkBegin \/ VizChunkRead \/ VizChunkExhausted \/ VizChunkFinish
    \/ VizFullLoad
    \/ AdvChunkBegin \/ AdvChunkRead \/ AdvChunkExhausted \/ AdvChunkFinish
    \/ AdvFullLoad

SpecChunk == ChunkInit /\ [][ChunkNext]_vars

OnChunkedPath == ChunkedPath(cscript, file_size)

\* C3: on the chunked path the rows held in the reservoir sample (the per-chunk
\* samples, and their concatenation df_sample) never exceed 50000, whatever the
\* number of chunks and the row limit (stated for limits >= 1; a max_rows of 0
\* switches the limit test off altogether).
C3_ReservoirCapped ==
    cscript = "viz" /\ OnChunkedPath /\ max_rows >= 1 =>
        /\ SeqSum(sampled_rows) <= 50000
        /\ df_sample_len # NoneVal => df_sample_len <= 50000

\* The row limit in effect in the chunk loop.
RowLimit == IF cscript = "adv" THEN adv_row_limit ELSE max_rows

RowChunk == IF cscript = "adv" THEN adv_chunk_size ELSE chunk_size

\* C5 as stated: the reported row count of the chunked path is at most the
\* maximum number of rows to scan, for every (positive) max_rows.
C5_RowCountAtMostMaxRows ==
    cpc = "done" /\ OnChunkedPath /\ RowLimit >= 1 => row_count <= RowLimit

\* C5 amended: for a row limit >= 1 the reported row count is below the limit
\* plus one chunk, and it is at most the limit when the limit is a multiple of
\* the chunk size (100000 and 1000000 with chunks of 100000 rows in viz,
\* 1000000 with chunks of 1000 rows in adv).
C5_RowCountWithinOneChunk ==
    cpc = "done" /\ OnChunkedPath /\ RowLimit >= 1 =>
        /\ row_count < RowLimit + RowChunk
        /\ RowLimit % RowChunk = 0 => row_count <= RowLimit

\* C5 witness: a file longer than the limit main() passes was cut at the limit.
C5_Witness ==
    /\ cpc = "done"
    /\ OnChunkedPath
    /\ cscript = "viz"
    /\ max_rows = MainRowLimit
    /\ file_rows > max_rows
    /\ row_count = max_rows

\* The file is below the chunking threshold of its script.
BelowThreshold ==
    IF cscript = "adv" THEN file_size < adv_chunk_threshold_mb * MB
    ELSE file_size < chunk_threshold_mb * MB

\* C7: for every file ingested via the full-load path (size below the chunking
\* threshold) the reported row count equals the number of data rows in the
\* file, also when a row cap applies.
C7_FullLoadRowCountExact ==
    cpc = "done" /\ BelowThreshold => row_count = file_rows

(***************************************************************************)
(* process_csv, chunked path, at value level                               *)
(* One numeric column of the file is followed through the chunk loop.  Its *)
(* cells are integers or NaN.  Cells are below 2^12 in magnitude and files *)
(* are short, so that every float32 operation of the path (chunks that     *)
(* hold a NaN are float columns, cast to float32) is exact; the narrow     *)
(* integer types chosen by optimize_dataframe keep their width.            *)
(***************************************************************************)
MaxFileLen == 4

MaxChunkRows == 3

Cells == {NaN, -12, 0, 3, 16, 300}

Columns == UNION {[1..n -> Cells] : n \in 1..MaxFileLen}

\* Row limits of the value-level model: one that short files reach, and the default.
StatRowLimits == {NoneVal, 2}

Max(a, b) == IF a >= b THEN a ELSE b

NotNa(c) == c # NaN

\* chunk[col].dropna()
dropna(column) == SelectSeq(column, NotNa)

HasNa(column) == \E i \in 1..Len(column) : column[i] = NaN

RECURSIVE SeqMin(_)
SeqMin(s) == IF Len(s) = 1 THEN s[1] ELSE Min(Head(s), SeqMin(Tail(s)))

RECURSIVE SeqMax(_)
SeqMax(s) == IF Len(s) = 1 THEN s[1] ELSE Max(Head(s), SeqMax(Tail(s)))

\* dtype pandas gives a parsed column of integers: int64, or float64 when a
\* value is missing.
ParsedDtype(column) == IF HasNa(column) THEN "float64" ELSE "int64"

\* optimize_dataframe: the dtype of the column after optimisation.
\* (max_val < 4294967295 holds for every cell of the model.)
OptimizedDtype(column) ==
    IF ParsedDtype(column) = "int64"
    THEN LET min_val == SeqMin(column)
             max_val == SeqMax(column)
         IN  IF min_val >= 0
             THEN IF max_val < 255 THEN "uint8"
                  ELSE IF max_val < 65535 THEN "uint16"
                  ELSE "uint32"
             ELSE IF min_val > -128 /\ max_val < 127 THEN "int8"
                  ELSE IF min_val > -32768 /\ max_val < 32767 THEN "int16"
                  ELSE IF min_val > (-2147483647 - 1) /\ max_val < 2147483647
                       THEN "int32"
                  ELSE "int64"
    ELSE "float32"

\* A value computed in a fixed-width integer type wraps around.  Squares of
\* cells stay below 2^31, so the types of 32 and 64 bits and float32 hold them.
WrapTo(dtype, x) ==
    CASE dtype = "uint8"  -> x % 256
      [] dtype = "uint16" -> x % 65536
      [] dtype = "int8"   -> ((x + 128) % 256) - 128
      [] dtype = "int16"  -> ((x + 32768) % 65536) - 32768
      [] OTHER            -> x

\* non_na ** 2: elementwise, in the dtype of the column
SquareIn(dtype, v) == WrapTo(dtype, v * v)

\* (non_na ** 2).sum(): the sum itself is accumulated in 64 bits
RECURSIVE SumSqIn(_, _)
SumSqIn(dtype, s) ==
    IF s = <<>> THEN 0 ELSE SquareIn(dtype, Head(s)) + SumSqIn(dtype, Tail(s))

\* Mutant of CountOf: every row of the chunk is counted, missing or not.
CountAll(column, non_na) == Len(column)

\* stats_data[col]['count'] += len(non_na)
CountOf(column, non_na) == Len(non_na)

\* Mutant of AddSum: the chunk sum replaces the running sum.
AddSumAssign(acc, non_na) == SeqSum(non_na)

\* stats_data[col]['sum'] += non_na.sum()
AddSum(acc, non_na) == acc + SeqSum(non_na)

\* The update of stats_data[col] by one chunk (after optimize_dataframe).
UpdateStats(sd, column) ==
    LET non_na == dropna(column)
        dtype == OptimizedDtype(column)
    IN  IF Len(non_na) > 0
        THEN [sum    |-> AddSum(sd.sum, non_na),
              sum_sq |-> sd.sum_sq + SumSqIn(dtype, non_na),
              count  |-> sd.count + CountOf(column, non_na),
              min    |-> Min(sd.min, SeqMin(non_na)),
              max    |-> Max(sd.max, SeqMax(non_na))]
        ELSE sd

\* Integer square root by bisection: the r in lo..hi with r*r <= x < (r+1)*(r+1).
RECURSIVE ISqrtIn(_, _, _)
ISqrtIn(lo, hi, x) ==
    IF lo >= hi THEN lo
    ELSE LET mid == (lo + hi + 1) \div 2
         IN  IF mid * mid <= x THEN ISqrtIn(mid, hi, x) ELSE ISqrtIn(lo, mid - 1, x)

\* np.sqrt: NaN for a negative argument (rounded down to an integer otherwise).
sqrt(x) == IF x < 0 THEN NaN ELSE ISqrtIn(0, 46340, x)

\* Mutant of StdOf: the square root is taken without the clamp.
StdUnclamped(var_num) == sqrt(var_num)

\* std = np.sqrt(variance) if variance > 0 else 0, with
\* variance = var_num / count^2, std = StdOf(var_num) / count
StdOf(var_num) == IF var_num > 0 THEN sqrt(var_num) ELSE 0

\* stats[col] from stats_data[col].  mean = sum / count is kept as the fraction
\* mean_num / mean_den, variance = sum_sq / count - mean^2 as var_num / count^2.
FinalStats(sd) ==
    IF sd.count > 0
    THEN LET var_num == sd.sum_sq * sd.count - sd.sum * sd.sum
         IN  [count    |-> sd.count,
              mean_num |-> sd.sum,
              mean_den |-> sd.count,
              var_num  |-> var_num,
              std_num  |-> StdOf(var_num),
              min      |-> sd.min,
              max      |-> sd.max]
    ELSE NoStats

StatInit ==
    /\ NewIdle
    /\ IngestIdle
    /\ PairIdle
    /\ LegacyIdle
    /\ BatchIdle
    /\ DialectIdle
    /\ cscript = "viz"
    /\ col_cells \in Columns
    /\ file_size = 1000 * MB + 1
    /\ file_rows = Len(col_cells)
    /\ chunk_rows \in 1..MaxChunkRows
    /\ max_rows \in StatRowLimits
    /\ cpc = "begin"
    /\ chunk_count = 0
    /\ total_rows = 0
    /\ sampled_rows = <<>>
    /\ row_count = NoneVal
    /\ df_sample_len = NoneVal
    /\ df_len = NoneVal
    /\ stats_data = StatsDataInit
    /\ stats = NoStats

\* Before the loop: max_rows default, stats_data and counters initialised.
StatBegin ==
    /\ cpc = "begin"
    /\ max_rows' = IF max_rows = NoneVal THEN default_max_rows ELSE max_rows
    /\ stats_data' = StatsDataInit
    /\ chunk_count' = 0
    /\ total_rows' = 0
    /\ sampled_rows' = <<>>
    /\ cpc' = "loop"
    /\ UNCHANGED df_len
    /\ UNCHANGED <<cscript, file_size, file_rows, row_count, df_sample_len>>
    /\ UNCHANGED <<col_cells, chunk_rows, stats>>
    /\ UNCHANGED <<batchVars, dialectVars, ingestVars, pairVars, legacyVars, newVars>>

\* One iteration of the chunk loop, on the next chunk_rows rows of the column.
StatChunkRead ==
    /\ cpc = "loop"
    /\ total_rows < file_rows
    /\ LET rows_in_chunk == Min(chunk_rows, file_rows - total_rows)
           total == total_rows + rows_in_chunk
           chunk == SubSeq(col_cells, total_rows + 1, total)
       IN  /\ chunk_count' = chunk_count + 1
           /\ total_rows' = total
           /\ stats_data' = UpdateStats(stats_data, chunk)
           /\ sampled_rows' =
                  IF Len(sampled_rows) < sample_list_limit
                  THEN Append(sampled_rows, SampleLen(rows_in_chunk))
                  ELSE sampled_rows
           /\ cpc' = IF LimitReached(max_rows, total) THEN "after" ELSE "loop"
    /\ UNCHANGED df_len
    /\ UNCHANGED <<cscript, file_size, file_rows, max_rows, row_count, df_sample_len>>
    /\ UNCHANGED <<col_cells, chunk_rows, stats>>
    /\ UNCHANGED <<batchVars, dialectVars, ingestVars, pairVars, legacyVars, newVars>>

\* The reader is exhausted: the for loop ends.
StatExhausted ==
    /\ cpc = "loop"
    /\ total_rows = file_rows
    /\ cpc' = "after"
    /\ UNCHANGED df_len
    /\ UNCHANGED <<cscript, file_size, file_rows, max_rows, chunk_count, total_rows,
                   sampled_rows, row_count, df_sample_len>>
    /\ UNCHANGED statVars
    /\ UNCHANGED <<batchVars, dialectVars, ingestVars, pairVars, legacyVars, newVars>>

\* After the loop: the final statistics, the sample and the row count.
StatFinish ==
    /\ cpc = "after"
    /\ stats' = FinalStats(stats_data)
    /\ df_sample_len' = SeqSum(sampled_rows)
    /\ row_count' = total_rows
    /\ cpc' = "done"
    /\ df_len' = SeqSum(sampled_rows)
    /\ UNCHANGED <<cscript, file_size, file_rows, max_rows, chunk_count, total_rows, sampled_rows>>
    /\ UNCHANGED <<col_cells, chunk_rows, stats_data>>
    /\ UNCHANGED <<batchVars, dialectVars, ingestVars, pairVars, legacyVars, newVars>>

StatNext == StatBegin \/ StatChunkRead \/ StatExhausted \/ StatFinish

SpecStats == StatInit /\ [][StatNext]_vars

InChunkLoop == cpc \in {"loop", "after", "done"}

\* C4: after any number of chunks, the streaming summary of a numeric column
\* has count <= rows scanned so far and, when count > 0, min <= sum / count <= max
\* (also in the final statistics, where mean = sum / count).
C4_SummaryConsistent ==
    InChunkLoop =>
        /\ stats_data.count <= total_rows
        /\ stats_data.count > 0 =>
               /\ stats_data.min * stats_data.count <= stats_data.sum
               /\ stats_data.sum <= stats_data.max * stats_data.count
        /\ stats.count > 0 =>
               /\ stats.count <= row_count
               /\ stats.min * stats.mean_den <= stats.mean_num
               /\ stats.mean_num <= stats.max * stats.mean_den

\* C4 witness: two chunks or more were aggregated, a missing value was skipped
\* and the values seen differ.
C4_Witness ==
    /\ cpc = "loop"
    /\ chunk_count >= 2
    /\ stats_data.count >= 2
    /\ stats_data.count < total_rows
    /\ stats_data.min < stats_data.max

\* The column loaded in full: its non-null values.
FullNonNull == dropna(col_cells)

\* C6: when the whole file was scanned, the streaming mean sum / count equals
\* the mean of all non-null values of the column loaded in full, for every
\* chunk size (a column without values has no statistics either way).
C6_StreamingMeanIsFullMean ==
    cpc = "done" /\ row_count = Len(col_cells) =>
        IF Len(FullNonNull) = 0
        THEN stats.count = 0
        ELSE /\ stats.count = Len(FullNonNull)
             /\ stats.mean_num * Len(FullNonNull) = SeqSum(FullNonNull) * stats.mean_den

\* C6 witness: a whole file with a missing value was scanned in several chunks.
C6_Witness ==
    /\ cpc = "done"
    /\ row_count = Len(col_cells)
    /\ chunk_count >= 2
    /\ HasNa(col_cells)
    /\ stats.count >= 2
    /\ stats.min < stats.max

\* C8: the variance is clamped to zero before the square root: the reported
\* std is never negative, never the root of a negative number (NaN), and it is
\* 0 whenever the computed variance is <= 0.
C8_StdClamped ==
    cpc = "done" /\ stats.count > 0 =>
        /\ stats.std_num # NaN
        /\ stats.std_num >= 0
        /\ stats.var_num <= 0 => stats.std_num = 0
        /\ stats.var_num > 0 =>
               /\ stats.std_num * stats.std_num <= stats.var_num
               /\ stats.var_num < (stats.std_num + 1) * (stats.std_num + 1)

\* C8 witness: the computed variance is negative and the reported std is 0.
C8_Witness ==
    /\ cpc = "done"
    /\ stats.count > 0
    /\ stats.var_num < 0
    /\ stats.std_num = 0

(***************************************************************************)
(* process_csv: detection of the separator and of the encoding             *)
(* A file is a sequence of bytes.  ASCII bytes are written as themselves;  *)
(* "xC3" is a UTF-8 lead byte of a two-byte sequence, "xA9" and "x81" are  *)
(* UTF-8 continuation bytes; "x81" is undefined in windows-1252.           *)
(* The files of the model are shorter than the read buffer of a text file  *)
(* (8192 bytes), so f.readline() decodes the whole file in its first read. *)
(***************************************************************************)
MaxBytes == 4

ByteAlphabet == {",", ";", "\t", "|", "a", "\n", "xC3", "xA9", "x81"}

\* The two prefixes named by the specification.
ExampleComma == <<"a", ",", "b", ",", "c", "\n", "1", ",", "2", ",", "3", "\n">>

ExampleSemicolon == <<"a", ";", "b", ";", "c", "\n", "1", ";", "2", ";", "3", "\n">>

\* sample_size = min(1000, os.path.getsize(file_path))
sample_size_cap == 1000

\* A file longer than the sample: 1000 bytes "a", then an undecodable byte
\* on the same (first) line.
LongFile == [i \in 1..(sample_size_cap + 1) |-> IF i <= sample_size_cap THEN "a" ELSE "x81"]

DialectFiles ==
    UNION {[1..n -> ByteAlphabet] : n \in 0..MaxBytes}
    \cup {ExampleComma, ExampleSemicolon, LongFile}

\* separators = [',', ';', '\t', '|']
separators == <<",", ";", "\t", "|">>

\* encodings = ['utf-8', 'latin1', 'ISO-8859-1', 'windows-1252']
encodings == <<"utf-8", "latin1", "ISO-8859-1", "windows-1252">>

IsLead(b) == b = "xC3"

IsCont(b) == b \in {"xA9", "x81"}

IsAscii(b) == ~IsLead(b) /\ ~IsCont(b)

\* Strict UTF-8 decoding of b, with two-byte sequences only: a byte is
\* invalid when it is a lead byte followed by something else than a
\* continuation byte, or a continuation byte that follows no lead byte.
\* "bad": an invalid byte; "cut": the data end inside a sequence; else "ok".
Utf8Invalid(b, i) ==
    \/ IsLead(b[i]) /\ i < Len(b) /\ ~IsCont(b[i + 1])
    \/ IsCont(b[i]) /\ (i = 1 \/ ~IsLead(b[i - 1]))

Utf8Scan(b) ==
    IF \E i \in 1..Len(b) : Utf8Invalid(b, i) THEN "bad"
    ELSE IF Len(b) > 0 /\ IsLead(b[Len(b)]) THEN "cut"
    ELSE "ok"

IsChar(c) == c # "dropped"

\* open(file_path, 'r', errors='ignore'): the text of b in the UTF-8 locale.
\* A two-byte sequence is one character, bytes that cannot be decoded are
\* dropped.
DecodeIgnore(b) ==
    SelectSeq([i \in 1..Len(b) |->
                  IF IsAscii(b[i]) THEN b[i]
                  ELSE IF IsLead(b[i]) /\ i < Len(b) /\ IsCont(b[i + 1]) THEN "non-ascii"
                  ELSE "dropped"],
              IsChar)

\* f.read(sample_size): the first sample_size characters
ReadChars(text, n) == SubSeq(text, 1, Min(n, Len(text)))

\* sample.count(sep)
Count(text, c) == Cardinality({i \in 1..Len(text) : text[i] = c})

\* sep_count = {sep: sample.count(sep) for sep in separators}
SepCount(text) == [k \in 1..Len(separators) |-> Count(text, separators[k])]

\* Mutant of MaxKey: a later key with an equal count replaces the best one.
RECURSIVE MaxKeyLast(_, _, _)
MaxKeyLast(cnt, k, best) ==
    IF k > Len(cnt) THEN best
    ELSE MaxKeyLast(cnt, k + 1, IF cnt[k] >= cnt[best] THEN k ELSE best)

\* max(sep_count, key=sep_count.get): the keys are visited in insertion order
\* and a key replaces the best one only when its count is strictly greater.
RECURSIVE MaxKey(_, _, _)
MaxKey(cnt, k, best) ==
    IF k > Len(cnt) THEN best
    ELSE MaxKey(cnt, k + 1, IF cnt[k] > cnt[best] THEN k ELSE best)

HasNewline(b) == \E i \in 1..Len(b) : b[i] = "\n"

\* with open(file_path, 'r', encoding=enc) as f: f.readline() raises
\* UnicodeDecodeError.  The incremental UTF-8 decoder keeps an unfinished
\* sequence at the end of the data for the next read, which happens only when
\* no newline was found.
ReadlineRaises(enc, b) ==
    CASE enc = "utf-8" ->
            \/ Utf8Scan(b) = "bad"
            \/ Utf8Scan(b) = "cut" /\ ~HasNewline(b)
      [] enc = "windows-1252" -> \E i \in 1..Len(b) : b[i] = "x81"
      [] OTHER -> FALSE

\* Mutant of TryEncodings: no break, the last encoding that decodes is kept.
RECURSIVE TryEncodingsNoBreak(_, _)
TryEncodingsNoBreak(b, k) ==
    IF k > Len(encodings) THEN ""
    ELSE LET later == TryEncodingsNoBreak(b, k + 1)
         IN  IF later # "" THEN later
             ELSE IF ~ReadlineRaises(encodings[k], b) THEN encodings[k] ELSE ""

\* The loop "for encoding in encodings" from position k: the first encoding
\* whose readline does not raise; "" (None) when there is none.
RECURSIVE TryEncodings(_, _)
TryEncodings(b, k) ==
    IF k > Len(encodings) THEN ""
    ELSE IF ~ReadlineRaises(encodings[k], b) THEN encodings[k]
    ELSE TryEncodings(b, k + 1)

\* pd.read_csv(file_path, ..., encoding=enc) decodes the file strictly (no
\* encoding_errors argument is passed).
StrictDecodeFails(enc, b) ==
    CASE enc = "utf-8" -> Utf8Scan(b) # "ok"
      [] enc = "windows-1252" -> \E i \in 1..Len(b) : b[i] = "x81"
      [] OTHER -> FALSE

DialectInit ==
    /\ NewIdle
    /\ IngestIdle
    /\ PairIdle
    /\ LegacyIdle
    /\ BatchIdle
    /\ ChunkIdle
    /\ StatIdle
    /\ file_bytes \in DialectFiles
    /\ dpc = "sniff"
    /\ sample = <<>>
    /\ likely_sep = ""
    /\ encoding_used = ""
    /\ encoding_fallback = FALSE
    /\ read_outcome = ""

\* Lines 152-162: the sample is read and the separator chosen.
DetectSeparator ==
    /\ dpc = "sniff"
    /\ LET sample_size == Min(sample_size_cap, Len(file_bytes))
           text == ReadChars(DecodeIgnore(file_bytes), sample_size)
       IN  /\ sample' = text
           /\ likely_sep' = separators[MaxKey(SepCount(text), 2, 1)]
    /\ dpc' = "encoding"
    /\ UNCHANGED <<file_bytes, encoding_used, encoding_fallback, read_outcome>>
    /\ UNCHANGED <<batchVars, chunkVars, statVars, ingestVars, pairVars, legacyVars, newVars>>

\* Lines 164-181: the encodings are tried in order; without any, utf-8 is set.
DetectEncoding ==
    /\ dpc = "encoding"
    /\ LET found == TryEncodings(file_bytes, 1)
       IN  /\ encoding_fallback' = (found = "")
           /\ encoding_used' = IF found = "" THEN "utf-8" ELSE found
    /\ dpc' = "read"
    /\ UNCHANGED <<file_bytes, sample, likely_sep, read_outcome>>
    /\ UNCHANGED <<batchVars, chunkVars, statVars, ingestVars, pairVars, legacyVars, newVars>>

\* The read that follows: pd.read_csv(file_path, sep=likely_sep,
\* encoding=encoding_used, ...) raises on an empty file and on bytes the
\* encoding cannot decode.
ReadWithDialect ==
    /\ dpc = "read"
    /\ read_outcome' =
          IF Len(file_bytes) = 0 THEN "EmptyDataError"
          ELSE IF StrictDecodeFails(encoding_used, file_bytes) THEN "UnicodeDecodeError"
          ELSE "ok"
    /\ dpc' = "done"
    /\ UNCHANGED <<file_bytes, sample, likely_sep, encoding_used, encoding_fallback>>
    /\ UNCHANGED <<batchVars, chunkVars, statVars, ingestVars, pairVars, legacyVars, newVars>>

DialectNext == DetectSeparator \/ DetectEncoding \/ ReadWithDialect

SpecDialect == DialectInit /\ [][DialectNext]_vars

SeparatorChosen == dpc \in {"encoding", "read", "done"}

\* C9: the separator returned has the highest count in the sample among
\* ',', ';', tab, '|', and among several with the highest count (all counts
\* zero included) it is the earliest of the list; "a,b,c\n1,2,3\n" gives ','
\* and "a;b;c\n1;2;3\n" gives ';'.
C9_SeparatorIsFirstMaximum ==
    SeparatorChosen =>
        /\ \E k \in 1..4 :
               /\ likely_sep = separators[k]
               /\ \A j \in 1..4 :
                      /\ Count(sample, separators[j]) <= Count(sample, separators[k])
                      /\ j < k => Count(sample, separators[j]) < Count(sample, separators[k])
        /\ file_bytes = <<>> => likely_sep = ","
        /\ file_bytes = ExampleComma => likely_sep = ","
        /\ file_bytes = ExampleSemicolon => likely_sep = ";"

\* C9 witness: ';' and '|' share the highest count, above ',', and ';' is returned.
C9_Witness ==
    /\ SeparatorChosen
    /\ Count(sample, ";") >= 1
    /\ Count(sample, ";") = Count(sample, "|")
    /\ Count(sample, ",") < Count(sample, ";")
    /\ Count(sample, "\t") < Count(sample, ";")
    /\ likely_sep = ";"

EncodingChosen == dpc \in {"read", "done"}

\* The bytes the separator sample is taken from.
SampledPrefix == SubSeq(file_bytes, 1, Min(sample_size_cap, Len(file_bytes)))

MaxDataRows == 4

HeaderFields == 2

FieldCounts == 1..(HeaderFields + 1)

DataLines ==
    UNION {[1..n -> FieldCounts] : n \in 0..MaxDataRows}

save_full_below_mb == 200

IngestFiles ==
    {[lines |-> <<>>, numeric |-> FALSE, bytes |-> "ascii", size |-> 0]}
    \cup {[lines |-> <<HeaderFields>> \o d, numeric |-> n, bytes |-> b, size |-> z] :
            d \in {x \in DataLines : Len(x) > 0 => x[1] = HeaderFields},
            n \in BOOLEAN, b \in {"ascii", "early", "late"},
            z \in {10 * MB, save_full_below_mb * MB}}

DataLinesOf(f) == IF Len(f.lines) = 0 THEN <<>> ELSE Tail(f.lines)

WellFormed(f) == Len(SelectSeq(DataLinesOf(f), LAMBDA c : c = HeaderFields))

TooManyFields(f) == Len(SelectSeq(DataLinesOf(f), LAMBDA c : c > HeaderFields))

TooFewFields(f) == Len(SelectSeq(DataLinesOf(f), LAMBDA c : c < HeaderFields))

Malformed(f) == TooManyFields(f) + TooFewFields(f)

\* Lines 164-181 on this file: utf-8 unless the first line cannot be decoded.
IngestEncoding(f) == IF f.bytes = "early" THEN "latin1" ELSE "utf-8"

\* Mutant of ReadCsvError: an empty file is read as an empty table.
ReadCsvErrorEmptyOk(f, enc) ==
    IF enc = "utf-8" /\ f.bytes \in {"early", "late"} THEN "UnicodeDecodeError" ELSE ""

\* pd.read_csv(file_path, sep=likely_sep, encoding=encoding_used, ...): the
\* exception raised, "" when none.
ReadCsvError(f, enc) ==
    IF Len(f.lines) = 0 THEN "EmptyDataError"
    ELSE IF enc = "utf-8" /\ f.bytes \in {"early", "late"} THEN "UnicodeDecodeError"
    ELSE ""

\* The second attempt passes low_memory=False together with engine='python',
\* which the parser rejects before it opens the file.
FallbackReadError == "ValueError"

\* error_bad_lines=False: a line with too many fields is dropped (and, with
\* warn_bad_lines=True, named on stderr); a line with too few is kept and
\* filled with NaN.
ParserKeeps(c) == c <= HeaderFields

RowsKept(f) == Len(SelectSeq(DataLinesOf(f), ParserKeeps))

IngestError(msg) == [erreur |-> msg]

OutFile(name) == [prefix |-> "own", name |-> name]

IngestInit ==
    /\ NewIdle
    /\ BatchIdle
    /\ ChunkIdle
    /\ StatIdle
    /\ DialectIdle
    /\ PairIdle
    /\ LegacyIdle
    /\ in_file \in IngestFiles
    /\ ipc = "detect"
    /\ i_encoding = ""
    /\ df_rows = NoneVal
    /\ bad_lines = 0
    /\ data_analysis = {}
    /\ payload = NoPayload
    /\ disk_before \in SUBSET {[prefix |-> "other", name |-> "clean.csv"],
                               OutFile("clean.csv")}
    /\ disk = disk_before

IngestFrame == <<batchVars, chunkVars, statVars, dialectVars, pairVars, legacyVars, newVars>>

\* Lines 147-181: size, separator, encoding.
IngestDetect ==
    /\ ipc = "detect"
    /\ i_encoding' = IngestEncoding(in_file)
    /\ ipc' = "read"
    /\ UNCHANGED <<in_file, df_rows, bad_lines, data_analysis, payload, disk, disk_before>>
    /\ UNCHANGED IngestFrame

\* Lines 283-292: read_csv; on any exception the second read_csv, whose
\* exception reaches the handler of lines 342-344.
IngestRead ==
    /\ ipc = "read"
    /\ IF ReadCsvError(in_file, i_encoding) # ""
         THEN /\ payload' = IngestError(FallbackReadError)
              /\ ipc' = "done"
              /\ UNCHANGED <<df_rows, bad_lines>>
         ELSE /\ df_rows' = RowsKept(in_file)
              /\ bad_lines' = TooManyFields(in_file)
              /\ ipc' = "optimize"
              /\ UNCHANGED payload
    /\ UNCHANGED <<in_file, i_encoding, data_analysis, disk, disk_before>>
    /\ UNCHANGED IngestFrame

ColumnsOf(f) == IF Len(f.lines) = 0 THEN 0 ELSE f.lines[1]

\* optimize_dataframe, lines 132-135: a table without rows has only object
\* columns, and df[col].nunique() / len(df) divides by zero.
OptimizeRaises(f, rows) == rows = 0 /\ ColumnsOf(f) > 0

IngestOptimize ==
    /\ ipc = "optimize"
    /\ IF OptimizeRaises(in_file, df_rows)
         THEN /\ payload' = IngestError("division by zero")
              /\ ipc' = "done"
         ELSE /\ ipc' = "analyze"
              /\ UNCHANGED payload
    /\ UNCHANGED <<in_file, i_encoding, df_rows, bad_lines, data_analysis, disk, disk_before>>
    /\ UNCHANGED IngestFrame

\* analyze_and_visualize_data, lines 391-482: the files written for the
\* missing values and for the numeric columns.
NumericOutputs(f) ==
    IF f.numeric
    THEN {"stats.csv", "histograms.png", "boxplots.png"}
         \cup (IF ColumnsOf(f) > 1 THEN {"correlation.png"} ELSE {})
    ELSE {}

MissingOutputs(f) == IF TooFewFields(f) > 0 THEN {"missing_values.png"} ELSE {}

\* Lines 346-567.  The chart of a text column depends on its number of
\* distinct values; the dashboard is listed whenever the call returns, and
\* it returns without a figure when there is no numeric column.
IngestAnalyze ==
    /\ ipc = "analyze"
    /\ \E cats \in SUBSET (IF in_file.numeric THEN {} ELSE {"categories.png"}),
          dash_ok \in BOOLEAN :
         LET written == MissingOutputs(in_file) \cup NumericOutputs(in_file) \cup cats
                        \cup (IF in_file.numeric /\ dash_ok THEN {"dashboard.png"} ELSE {})
             listed == (written \ {"stats.csv"})
                        \cup (IF dash_ok THEN {"dashboard.png"} ELSE {})
         IN  /\ in_file.numeric \/ dash_ok
             /\ disk' = disk \cup {OutFile(n) : n \in written}
             /\ data_analysis' = listed
    /\ ipc' = "save"
    /\ UNCHANGED <<in_file, i_encoding, df_rows, bad_lines, payload, disk_before>>
    /\ UNCHANGED IngestFrame

sample_save_above == 10000

SampleFile(rows) == IF rows > sample_save_above THEN "sample.csv" ELSE "clean.csv"

\* Mutant of SavedFiles: nothing is written.
SavedNothing(f, rows) == {}

\* Lines 305-323: the sample or clean file, and the compressed full file of
\* a file below 200 MB.
SavedFiles(f, rows) ==
    {SampleFile(rows)} \cup (IF f.size < save_full_below_mb * MB THEN {"full.csv.gz"} ELSE {})

\* Lines 329-340.
ResultKeys ==
    {"fichier", "lignes", "colonnes", "taille_mb", "colonnes_numeriques",
     "fichiers_sortie", "visualisations", "correlations", "valeurs_manquantes", "stats"}

IngestSave ==
    /\ ipc = "save"
    /\ disk' = disk \cup {OutFile(n) : n \in SavedFiles(in_file, df_rows)}
    /\ payload' = [fichier |-> "file_path",
                   lignes |-> df_rows,
                   colonnes |-> ColumnsOf(in_file),
                   taille_mb |-> in_file.size \div MB,
                   colonnes_numeriques |-> IF in_file.numeric THEN ColumnsOf(in_file) ELSE 0,
                   fichiers_sortie |-> {SampleFile(df_rows), "full.csv.gz"},
                   visualisations |-> data_analysis,
                   correlations |-> in_file.numeric /\ ColumnsOf(in_file) > 1,
                   valeurs_manquantes |-> TooFewFields(in_file),
                   stats |-> in_file.numeric]
    /\ ipc' = "done"
    /\ UNCHANGED <<in_file, i_encoding, df_rows, bad_lines, data_analysis, disk_before>>
    /\ UNCHANGED IngestFrame

IngestNext ==
    IngestDetect \/ IngestRead \/ IngestOptimize \/ IngestAnalyze \/ IngestSave

SpecIngest == IngestInit /\ [][IngestNext]_vars

IngestReturned == ipc = "done"

EmptyFile == Len(in_file.lines) = 0

\* C11: ingesting a zero-byte file returns an error payload, never a success
\* payload (with a row count of 0 or any other).
C11_EmptyFileIsError ==
    EmptyFile =>
        /\ ~IsSuccessPayload(payload)
        /\ IngestReturned => IsErrorPayload(payload)

\* C11 witness: a zero-byte file was ingested and the error payload returned.
C11_Witness ==
    /\ EmptyFile
    /\ IngestReturned
    /\ IsErrorPayload(payload)

\* C12: a decodable file with well-formed rows and malformed rows (wrong
\* column count) yields a success payload whose row count is the number of
\* well-formed rows and which records the number of rows skipped.
C12_MalformedRowsSkippedAndCounted ==
    /\ IngestReturned
    /\ ReadCsvError(in_file, i_encoding) = ""
    /\ WellFormed(in_file) > 0
    /\ Malformed(in_file) > 0
    => /\ IsSuccessPayload(payload)
       /\ payload.lignes = WellFormed(in_file)
       /\ \E k \in DOMAIN payload \ ResultKeys : payload[k] = Malformed(in_file)

HeaderOnly == Len(in_file.lines) = 1

\* C13: a decodable file with a header and no data row yields a success
\* payload with an empty table, not an error payload.
C13_HeaderOnlyIsSoft ==
    /\ IngestReturned
    /\ HeaderOnly
    /\ ReadCsvError(in_file, i_encoding) = ""
    => /\ IsSuccessPayload(payload)
       /\ payload.lignes = 0

MaxTail == 2

PairPrefixes ==
    {[i \in 1..sample_size_cap |->
         IF i = 1 THEN first ELSE IF i = sample_size_cap THEN last ELSE "a"] :
       first \in {"a", ",", "x81"}, last \in {"a", "xC3", "\n"}}

PairTails ==
    UNION {[1..n -> {";", "\n", "xA9", "x81"}] : n \in 0..MaxTail}

\* Lines 152-162 as a function of the bytes of the file.
SeparatorOf(b) ==
    separators[MaxKey(SepCount(ReadChars(DecodeIgnore(b), Min(sample_size_cap, Len(b)))), 2, 1)]

\* Lines 164-181 as a function of the bytes of the file.
EncodingOf(b) ==
    LET found == TryEncodings(b, 1) IN IF found = "" THEN "utf-8" ELSE found

PairInit ==
    /\ NewIdle
    /\ BatchIdle
    /\ ChunkIdle
    /\ StatIdle
    /\ DialectIdle
    /\ IngestIdle
    /\ LegacyIdle
    /\ pair_files \in {<<p \o t1, p \o t2>> : p \in PairPrefixes, t1 \in PairTails, t2 \in PairTails}
    /\ ppc = "detect"
    /\ pair_sep = <<"", "">>
    /\ pair_enc = <<"", "">>

PairDetect ==
    /\ ppc = "detect"
    /\ pair_sep' = [i \in 1..2 |-> SeparatorOf(pair_files[i])]
    /\ pair_enc' = [i \in 1..2 |-> EncodingOf(pair_files[i])]
    /\ ppc' = "done"
    /\ UNCHANGED pair_files
    /\ UNCHANGED <<batchVars, chunkVars, statVars, dialectVars, ingestVars, legacyVars, newVars>>

PairNext == PairDetect

SpecPair == PairInit /\ [][PairNext]_vars

SamePrefix ==
    SubSeq(pair_files[1], 1, sample_size_cap) = SubSeq(pair_files[2], 1, sample_size_cap)

\* C15: two files with the same first 1000 bytes get the same separator and
\* the same encoding.
C15_DialectDependsOnPrefixOnly ==
    ppc = "done" /\ SamePrefix =>
        /\ pair_sep[1] = pair_sep[2]
        /\ pair_enc[1] = pair_enc[2]


(***************************************************************************)
(* process_data.py: get_latest_files (lines 47-73) and main (304-336).     *)
(* A file of RAW_DIR is a record                                           *)
(*   prefix  its base name up to the first "_",                            *)
(*   ctime   os.path.getctime, which also tells files of one source apart, *)
(*   ending  the last characters of its name: "_csv", ".csv", "_json" or   *)
(*           ".json".                                                      *)
(***************************************************************************)
MaxRaw == 3

RawNames == [prefix : {"A", "B"}, ctime : 1..2, ending : {"_csv", ".csv", "_json", ".json"}]

RawDirs == {d \in SUBSET RawNames : Cardinality(d) <= MaxRaw}

\* glob.glob(str(RAW_DIR / f"*_{file_type.lower()}")): the names that end
\* with "_csv", with "_json".
GlobMatches(dir, file_type) == {f \in dir : f.ending = "_" \o file_type}

\* file_path.endswith(".csv"), file_path.endswith(".json")
EndsWith(f, suffix) == f.ending = suffix

PrefixesOf(files) == {f.prefix : f \in files}

\* max(file_list, key=os.path.getctime)
LatestOf(files, p) ==
    CHOOSE f \in files : f.prefix = p /\ \A g \in files : g.prefix = p => g.ctime <= f.ctime

Perms(S) == {q \in [1..Cardinality(S) -> S] : \A i, j \in DOMAIN q : q[i] = q[j] => i = j}

LegacyInit ==
    /\ NewIdle
    /\ BatchIdle
    /\ ChunkIdle
    /\ StatIdle
    /\ DialectIdle
    /\ IngestIdle
    /\ PairIdle
    /\ raw_dir \in RawDirs
    /\ lpc = "select"
    /\ latest_files = <<>>
    /\ l_idx = 0
    /\ l_results = <<>>

LegacyFrame ==
    <<batchVars, chunkVars, statVars, dialectVars, ingestVars, pairVars,
      runVars, renderVars, optVars, discordVars, emailVars>>

\* get_latest_files: the CSV pass, then the JSON pass, which replaces the
\* entry of a prefix the CSV pass has set; glob returns names in any order.
get_latest_files ==
    /\ lpc = "select"
    /\ LET csv == GlobMatches(raw_dir, "csv")
           json == GlobMatches(raw_dir, "json")
       IN  \E k1 \in Perms(PrefixesOf(csv)),
              k2 \in Perms(PrefixesOf(json) \ PrefixesOf(csv)) :
              latest_files' =
                  [i \in 1..(Len(k1) + Len(k2)) |->
                      LET p == (k1 \o k2)[i]
                      IN  [prefix |-> p,
                           file |-> IF p \in PrefixesOf(json) THEN LatestOf(json, p)
                                    ELSE LatestOf(csv, p)]]
    /\ lpc' = "loop"
    /\ UNCHANGED <<raw_dir, l_idx, l_results>>
    /\ UNCHANGED exitVars
    /\ UNCHANGED LegacyFrame

\* Lines 315-321: the branch of main() taken for a file.
Dispatched(f) ==
    IF EndsWith(f, ".csv") THEN "process_csv"
    ELSE IF EndsWith(f, ".json") THEN "process_json"
    ELSE "continue"

\* One iteration of "for prefix, file_path in latest_files.items()".
LegacyIterate ==
    /\ lpc = "loop"
    /\ l_idx < Len(latest_files)
    /\ LET entry == latest_files[l_idx + 1] IN
         IF Dispatched(entry.file) = "continue"
         THEN UNCHANGED l_results
         ELSE \E ok \in BOOLEAN :
                l_results' = Append(l_results,
                    IF ok THEN [fichier |-> entry.prefix] ELSE [erreur |-> "str(e)"])
    /\ l_idx' = l_idx + 1
    /\ UNCHANGED <<raw_dir, lpc, latest_files>>
    /\ UNCHANGED exitVars
    /\ UNCHANGED LegacyFrame

\* Lines 325-336: generate_report returns a path or None; open(None, 'rb')
\* raises.
LegacyReport ==
    /\ lpc = "loop"
    /\ l_idx = Len(latest_files)
    /\ \E report_ok \in BOOLEAN :
           IF report_ok
           THEN l_report' = "path" /\ lpc' = "returned" /\ l_exit' = 0
           ELSE l_report' = "None" /\ lpc' = "raised" /\ UNCHANGED l_exit
    /\ UNCHANGED <<raw_dir, latest_files, l_idx, l_results>>
    /\ UNCHANGED LegacyFrame

LegacyNext == get_latest_files \/ LegacyIterate \/ LegacyReport

SpecLegacy == LegacyInit /\ [][LegacyNext]_vars

LegacyEnded == lpc \in {"returned", "raised"}

\* C16: when main() of process_data.py ends, the results list has exactly
\* one entry for each file selected by get_latest_files, in order.
C16_OneResultPerSelectedFile ==
    LegacyEnded => Len(l_results) = Len(latest_files)


(***************************************************************************)
(* Further properties of the chunk loop, of the choice of the path and of  *)
(* the batch loop.                                                         *)
(***************************************************************************)
\* C17: in the chunk loop the rows read are the sum of the lengths of the
\* chunks read (full chunks, the last one possibly short), a chunk is read
\* only while the rows read are below the limit, and the row count reported
\* is the number of rows read.
C17_StopsAtLimitAndCountsScanned ==
    OnChunkedPath /\ cpc \in {"loop", "after", "done"} =>
        /\ total_rows = Min(file_rows, chunk_count * RowChunk)
        /\ RowLimit >= 1 /\ chunk_count >= 1 => (chunk_count - 1) * RowChunk < RowLimit
        /\ RowLimit >= 1 /\ cpc = "loop" => total_rows < RowLimit
        /\ cpc = "done" => row_count = total_rows

\* C17 witness: the loop stopped at the limit before the end of the file, and
\* the row count reported is below the number of rows of the file.
C17_Witness ==
    /\ cscript = "viz"
    /\ OnChunkedPath
    /\ cpc = "done"
    /\ max_rows >= 1
    /\ row_count >= max_rows
    /\ row_count < file_rows
    /\ chunk_count >= 2

ThresholdBytes ==
    IF cscript = "adv" THEN adv_chunk_threshold_mb * MB ELSE chunk_threshold_mb * MB

\* C18 as stated: the chunked path is taken exactly by the files whose size
\* is at or above the threshold.
C18_ChunkedAtOrAboveThreshold ==
    /\ cpc = "loop" => file_size >= ThresholdBytes
    /\ cpc = "full" => file_size < ThresholdBytes

\* C18 amended: the chunked path is taken exactly by the files whose size is
\* strictly above the threshold; a file of exactly the threshold size is
\* loaded in full.
C18_ChunkedStrictlyAboveThreshold ==
    /\ cpc = "loop" => file_size > ThresholdBytes
    /\ cpc = "full" => file_size <= ThresholdBytes

\* C18 witness: a file of exactly the threshold size is on the full-load path.
C18_Witness ==
    /\ cpc = "full"
    /\ file_size = ThresholdBytes

RECURSIVE ExactSumSq(_)
ExactSumSq(s) == IF s = <<>> THEN 0 ELSE Head(s) * Head(s) + ExactSumSq(Tail(s))

\* C19: after each chunk the accumulated sum_sq of the column is the exact
\* sum of the squares of the non-null values scanned so far.
C19_SumSqExact ==
    InChunkLoop =>
        stats_data.sum_sq = ExactSumSq(dropna(SubSeq(col_cells, 1, total_rows)))

\* C20: files are ingested one after another in discovery order, each
\* discovered file exactly once; the results are in discovery order, and
\* main() ends, after its report, with the result of every file appended.
C20_SequentialInDiscoveryOrder ==
    /\ Len(calls) = Len(results)
    /\ Len(calls) <= Len(files_to_process)
    /\ \A k \in 1..Len(calls) : calls[k].prefix = files_to_process[k].prefix
    /\ pc = "returned" /\ exit_status # NoneVal => Len(results) = Len(files_to_process)
    /\ BatchEnded => Len(calls) = Len(files_to_process)


\* C25: when generate_report has returned None, main() ends by returning 1:
\* it neither raises nor returns 0.
C25_ReportFailureExitsOne ==
    l_report = "None" => lpc = "returned" /\ l_exit = 1


(***************************************************************************)
(* process_data_advanced.py: one run of main() (lines 365-394).            *)
(* A file of today in RAW_DIR is named <source>_<today>.csv or             *)
(* <source>_<part>_<today>.csv and is a record                             *)
(*   source, part  of its name (part "": none),                            *)
(*   numeric       it has a numeric column,                                *)
(*   readable      pd.read_csv parses it.                                  *)
(* An artifact is an output file in the processed or report directory:     *)
(* its prefix, its kind, and the run that wrote it ("old": an earlier run).*)
(***************************************************************************)
MaxToday == 2

TodayFiles == [source : {"A", "B"}, part : {"", "x", "y"}, numeric : BOOLEAN, readable : BOOLEAN]

NameOf(f) == [source |-> f.source, part |-> f.part]

RawListings ==
    {q \in UNION {[1..n -> TodayFiles] : n \in 0..MaxToday} :
        \A i, j \in DOMAIN q : NameOf(q[i]) = NameOf(q[j]) => i = j}

OldArtifacts ==
    {[prefix |-> "A", kind |-> "histogram.png", run |-> "old"],
     [prefix |-> "Z", kind |-> "clean.csv", run |-> "old"]}

\* prefix = file.name.split("_")[0]
PrefixOfName(f) == f.source

\* Mutant of PrefixOfName: the whole name before the date.
PrefixWithPart(f) == <<f.source, f.part>>

\* for file in RAW_DIR.glob(...): latest_files[prefix] = file.  A key keeps
\* the position of its first insertion and the value of its last.
RECURSIVE DictFrom(_, _)
DictFrom(listing, dict) ==
    IF listing = <<>> THEN dict
    ELSE LET f == Head(listing)
             p == PrefixOfName(f)
             entry == [prefix |-> p, file |-> f]
         IN  DictFrom(Tail(listing),
                 IF \E k \in DOMAIN dict : dict[k].prefix = p
                 THEN [k \in DOMAIN dict |-> IF dict[k].prefix = p THEN entry ELSE dict[k]]
                 ELSE Append(dict, entry))

OldIdle ==
    BatchIdle /\ ChunkIdle /\ StatIdle /\ DialectIdle /\ IngestIdle /\ PairIdle /\ LegacyIdle

RunInit ==
    /\ OldIdle
    /\ RenderIdle /\ ExitIdle /\ OptIdle /\ DiscordIdle /\ EmailIdle
    /\ run_raw \in RawListings
    /\ run_old \in SUBSET OldArtifacts
    /\ run_disk = run_old
    /\ run_latest = <<>>
    /\ run_idx = 0
    /\ run_results = <<>>
    /\ run_report = {}
    /\ rpc = "select"

OldFrame == <<batchVars, chunkVars, statVars, dialectVars, ingestVars, pairVars, legacyVars>>

RunFrame == <<OldFrame, renderVars, exitVars, optVars, discordVars, emailVars>>

\* get_latest_files, lines 46-57; main returns 1 when the dict is empty.
RunSelect ==
    /\ rpc = "select"
    /\ run_latest' = DictFrom(run_raw, <<>>)
    /\ rpc' = IF run_latest' = <<>> THEN "returned" ELSE "loop"
    /\ UNCHANGED <<run_raw, run_old, run_disk, run_idx, run_results, run_report>>
    /\ UNCHANGED RunFrame

\* The output files process_csv writes for a file it has parsed, in order;
\* the clean file is the last one (line 198).
OutputKinds(f) ==
    IF f.numeric THEN {"stats.csv", "histogram.png", "clean.csv"}
    ELSE {"categories.png", "clean.csv"}

\* Mutant of CsvResult: the return value does not name stats_file.
CsvResultGuarded(f, prefix) ==
    IF ~f.readable THEN [erreur |-> "read_csv"] ELSE [fichier |-> prefix]

\* Lines 201-213: the dict returned.  "fichiers_sortie" evaluates
\* str(stats_file), a name bound only under "if numeric_cols:" (line 121).
CsvResult(f, prefix) ==
    IF ~f.readable THEN [erreur |-> "read_csv"]
    ELSE IF ~f.numeric THEN [erreur |-> "UnboundLocalError: stats_file"]
    ELSE [fichier |-> prefix]

Written(on_disk, prefix, kinds) ==
    {a \in on_disk : ~(a.prefix = prefix /\ a.kind \in kinds)}
    \cup {[prefix |-> prefix, kind |-> k, run |-> "this"] : k \in kinds}

\* One iteration of main(): process_csv(file_path, prefix), results.append.
RunIterate ==
    /\ rpc = "loop"
    /\ run_idx < Len(run_latest)
    /\ LET entry == run_latest[run_idx + 1] IN
         /\ run_disk' = IF entry.file.readable
                        THEN Written(run_disk, entry.prefix, OutputKinds(entry.file))
                        ELSE run_disk
         /\ run_results' = Append(run_results, CsvResult(entry.file, entry.prefix))
    /\ run_idx' = run_idx + 1
    /\ UNCHANGED <<run_raw, run_old, run_latest, run_report, rpc>>
    /\ UNCHANGED RunFrame

\* Mutant of Globbed: only the files of the sources of this run's results.
GlobbedOfRun(on_disk, res) ==
    {a \in on_disk : \E i \in DOMAIN res : IsSuccessPayload(res[i]) /\ res[i].fichier = a.prefix}

\* generate_report, lines 302-340: REPORT_DIR.glob("*_*.png"),
\* PROCESSED_DIR.glob("*_stats.csv"), "*_correlations.csv", "*_clean.csv".
Globbed(on_disk, res) == on_disk

\* generate_report(results), which returns a path or None, and the return.
RunReport ==
    /\ rpc = "loop"
    /\ run_idx = Len(run_latest)
    /\ \E report_ok \in BOOLEAN :
           run_report' = IF report_ok THEN Globbed(run_disk, run_results) ELSE {}
    /\ rpc' = "returned"
    /\ UNCHANGED <<run_raw, run_old, run_disk, run_latest, run_idx, run_results>>
    /\ UNCHANGED RunFrame

RunNext == RunSelect \/ RunIterate \/ RunReport

SpecRun == RunInit /\ [][RunNext]_vars

\* C21: the report of a run references only artifacts written in that run.
C21_ReportOfThisRunOnly ==
    \A a \in run_report : a.run = "this"

\* C22: a parsed CSV without a numeric column gets a success payload, and a
\* source that got an error payload has no clean file written in this run.
C22_NoNumericColumnIsSuccess ==
    \A i \in 1..Len(run_results) :
        LET entry == run_latest[i] IN
          /\ entry.file.readable /\ ~entry.file.numeric => IsSuccessPayload(run_results[i])
          /\ IsErrorPayload(run_results[i]) =>
                [prefix |-> entry.prefix, kind |-> "clean.csv", run |-> "this"] \notin run_disk

\* C23: every file of today is a value of the discovery dict, and the files
\* of the dict have distinct prefixes.
C23_EveryFileDiscovered ==
    rpc # "select" =>
        /\ \A i \in DOMAIN run_raw : \E k \in DOMAIN run_latest : run_latest[k].file = run_raw[i]
        /\ \A j, k \in DOMAIN run_latest :
               run_latest[j].prefix = run_latest[k].prefix => j = k

(***************************************************************************)
(* process_data.py: generate_report's summary table (lines 240-259) over   *)
(* the payloads process_csv (lines 119-130) and process_json (lines        *)
(* 193-201) return.  A path is a sequence of characters; counts are the    *)
(* texts the table shows.                                                  *)
(***************************************************************************)
MaxResults == 2

LegacyPaths == {<<"r", "/", "A", "_", "d">>, <<"r", "/", "B", "_", "d">>}

CsvPayloads == [file : LegacyPaths, rows : {"0", "7"}, columns : {"1", "3"}]

JsonPayloads == [file : LegacyPaths, analysis : {"dict"}]

ErrorPayloads == [error : {"EmptyDataError", "UnboundLocalError"}]

LegacyPayloads == CsvPayloads \cup JsonPayloads \cup ErrorPayloads

\* result.get(key, default)
Get(result, key, default) == IF key \in DOMAIN result THEN result[key] ELSE default

\* path.split("/")[-1]
RECURSIVE LastSegment(_)
LastSegment(path) ==
    IF \A i \in DOMAIN path : path[i] # "/" THEN path
    ELSE LastSegment(Tail(path))

\* name.split("_")[0]
RECURSIVE FirstToken(_)
FirstToken(name) ==
    IF name = <<>> \/ Head(name) = "_" THEN <<>>
    ELSE <<Head(name)>> \o FirstToken(Tail(name))

\* Lines 241-258: the table row of one result.
ReportRow(result) ==
    LET source == FirstToken(LastSegment(Get(result, "fichier", <<>>))) IN
    IF "erreur" \in DOMAIN result
    THEN [class |-> "error", source |-> source, lignes |-> "-", colonnes |-> "-",
          statut |-> "Erreur", message |-> result["erreur"]]
    ELSE [class |-> "", source |-> source,
          lignes |-> Get(result, "lignes", "-"),
          colonnes |-> Get(result, "colonnes", "-"),
          statut |-> "Succès", message |-> ""]

RenderInit ==
    /\ OldIdle
    /\ RunIdle /\ ExitIdle /\ OptIdle /\ DiscordIdle /\ EmailIdle
    /\ rn_results \in UNION {[1..n -> LegacyPayloads] : n \in 0..MaxResults}
    /\ rn_rows = <<>>
    /\ rn_pc = "start"

\* The loop "for result in results" of generate_report.
RenderRows ==
    /\ rn_pc = "start"
    /\ rn_rows' = [i \in DOMAIN rn_results |-> ReportRow(rn_results[i])]
    /\ rn_pc' = "done"
    /\ UNCHANGED rn_results
    /\ UNCHANGED <<OldFrame, runVars, exitVars, optVars, discordVars, emailVars>>

RenderNext == RenderRows

SpecRender == RenderInit /\ [][RenderNext]_vars

\* C24: an error payload of process_data.py is rendered as an error row with
\* its message; a success payload as a success row with its source name and,
\* where it has them, its row and column counts.
C24_RowsReflectPayloads ==
    rn_pc = "done" =>
        \A i \in DOMAIN rn_results :
            LET result == rn_results[i]
                row == rn_rows[i]
            IN  IF "error" \in DOMAIN result
                THEN row.statut = "Erreur" /\ row.message = result.error
                ELSE /\ row.statut = "Succès"
                     /\ row.source = FirstToken(LastSegment(result.file))
                     /\ "rows" \in DOMAIN result =>
                            row.lignes = result.rows /\ row.colonnes = result.columns

(***************************************************************************)
(* process_data_with_advanced_viz.py: process_csv as main() calls it       *)
(***************************************************************************)
\* max_rows holds what main() passes for a file of this size (lines 1064-1067)
ViaMain == cscript = "viz" /\ max_rows = MainMaxRows([size |-> file_size])

\* C26: through main(), a file of more than 200 MB is ingested with
\* max_rows = 100000: the 1000000-row default is never the limit in effect,
\* the reported row count is at most 100000, and the chunk loop reads one
\* chunk only.
C26_MainCapsLargeFiles ==
    ViaMain /\ file_size > 200 * MB =>
        /\ max_rows = MainRowLimit
        /\ max_rows # default_max_rows
        /\ row_count # NoneVal => row_count <= MainRowLimit
        /\ OnChunkedPath => chunk_count <= 1
        /\ OnChunkedPath /\ cpc = "done" /\ file_rows > 0 => chunk_count = 1

C26_Witness ==
    /\ ViaMain /\ OnChunkedPath /\ cpc = "done"
    /\ file_rows > MainRowLimit
    /\ chunk_count = 1
    /\ row_count = MainRowLimit

\* C27: on the chunked path the returned "stats" are the streaming ones.  The
\* returned statistics describe the table handed to the analysis, so their
\* count is at most its length: the streaming count is within that length.
C27_ReturnedStatsAreStreaming ==
    cscript = "viz" /\ OnChunkedPath /\ cpc = "done" /\ stats # NoStats =>
        stats.count <= df_len

(***************************************************************************)
(* optimize_dataframe on an integer column (lines 106-126).                *)
(* A cell of an int64 column can exceed 32 bits, so an integer n is held   *)
(* as the pair <<h, l>> with n = h * 65536 + l and l in 0..65535.          *)
(***************************************************************************)
MaxColLen == 2

Wide(n) == <<n \div 65536, n % 65536>>

WideLess(a, b) == a[1] < b[1] \/ (a[1] = b[1] /\ a[2] < b[2])

\* 4294967295, 4294967294, 4294967296, -2147483648, -2147483649, 2147483648
BeyondInt32 ==
    {<<65535, 65535>>, <<65535, 65534>>, <<65536, 0>>, <<-32768, 0>>, <<-32769, 65535>>,
     <<32768, 0>>}

\* The values next to every threshold of the function.
IntCells ==
    {Wide(n) : n \in {0, 1, 254, 255, 256, 65534, 65535, 65536,
                      126, 127, 128, 32766, 32767, 32768, 2147483646, 2147483647,
                      -1, -127, -128, -129, -32767, -32768, -32769, -2147483647}}
    \cup BeyondInt32

IntColumns == UNION {[1..n -> IntCells] : n \in 1..MaxColLen}

RECURSIVE WideMin(_)
WideMin(column) ==
    IF Len(column) = 1 THEN column[1]
    ELSE LET rest == WideMin(Tail(column))
         IN  IF WideLess(column[1], rest) THEN column[1] ELSE rest

RECURSIVE WideMax(_)
WideMax(column) ==
    IF Len(column) = 1 THEN column[1]
    ELSE LET rest == WideMax(Tail(column))
         IN  IF WideLess(rest, column[1]) THEN column[1] ELSE rest

\* Mutant of IntegerTarget: uint8 is chosen up to a maximum of 256.
IntegerTargetLoose(min_val, max_val) ==
    IF ~WideLess(min_val, Wide(0))
    THEN IF WideLess(max_val, Wide(257)) THEN "uint8"
         ELSE IF WideLess(max_val, Wide(65535)) THEN "uint16"
         ELSE IF WideLess(max_val, <<65535, 65535>>) THEN "uint32"
         ELSE "int64"
    ELSE IF WideLess(Wide(-128), min_val) /\ WideLess(max_val, Wide(127)) THEN "int8"
         ELSE IF WideLess(Wide(-32768), min_val) /\ WideLess(max_val, Wide(32767)) THEN "int16"
         ELSE IF WideLess(<<-32768, 0>>, min_val) /\ WideLess(max_val, Wide(2147483647))
              THEN "int32"
         ELSE "int64"

\* Lines 113-126: the type the column is cast to ("int64": left as it is).
IntegerTarget(min_val, max_val) ==
    IF ~WideLess(min_val, Wide(0))
    THEN IF WideLess(max_val, Wide(255)) THEN "uint8"
         ELSE IF WideLess(max_val, Wide(65535)) THEN "uint16"
         ELSE IF WideLess(max_val, <<65535, 65535>>) THEN "uint32"
         ELSE "int64"
    ELSE IF WideLess(Wide(-128), min_val) /\ WideLess(max_val, Wide(127)) THEN "int8"
         ELSE IF WideLess(Wide(-32768), min_val) /\ WideLess(max_val, Wide(32767)) THEN "int16"
         ELSE IF WideLess(<<-32768, 0>>, min_val) /\ WideLess(max_val, Wide(2147483647))
              THEN "int32"
         ELSE "int64"

\* astype(dtype) of one int64 value: numpy keeps the low bits of the value
\* and reads them in the target type.
AsType(dtype, v) ==
    CASE dtype = "uint8"  -> <<0, v[2] % 256>>
      [] dtype = "uint16" -> <<0, v[2]>>
      [] dtype = "uint32" -> <<v[1] % 65536, v[2]>>
      [] dtype = "int8"   -> Wide(((v[2] + 128) % 256) - 128)
      [] dtype = "int16"  -> Wide(((v[2] + 32768) % 65536) - 32768)
      [] dtype = "int32"  -> <<((v[1] + 32768) % 65536) - 32768, v[2]>>
      [] OTHER            -> v

OptInit ==
    /\ OldIdle
    /\ RunIdle /\ RenderIdle /\ ExitIdle /\ DiscordIdle /\ EmailIdle
    /\ opt_col \in IntColumns
    /\ opt_dtype = ""
    /\ opt_cast = <<>>
    /\ opc = "start"

\* The body of the loop for one integer column.
OptimizeColumn ==
    /\ opc = "start"
    /\ opt_dtype' = IntegerTarget(WideMin(opt_col), WideMax(opt_col))
    /\ opt_cast' = [i \in DOMAIN opt_col |-> AsType(opt_dtype', opt_col[i])]
    /\ opc' = "done"
    /\ UNCHANGED opt_col
    /\ UNCHANGED <<OldFrame, runVars, renderVars, exitVars, discordVars, emailVars>>

OptNext == OptimizeColumn

SpecOptimize == OptInit /\ [][OptNext]_vars

\* C28: the cast chosen by optimize_dataframe for an integer column changes
\* no value of the column.
C28_CastPreservesValues ==
    opc = "done" => opt_cast = opt_col

\* A column whose maximum is 254 is cast to uint8, one reaching 4294967294
\* to uint32, and a negative one down to -127 to int8.
C28_Witness ==
    /\ opc = "done"
    /\ \/ opt_dtype = "uint8" /\ \E i \in DOMAIN opt_col : opt_col[i] = Wide(254)
       \/ opt_dtype = "uint32" /\ \E i \in DOMAIN opt_col : opt_col[i] = <<65535, 65534>>
       \/ opt_dtype = "int8" /\ \E i \in DOMAIN opt_col : opt_col[i] = Wide(-127)

(***************************************************************************)
(* send_discord_with_charts.py: main() (lines 185-207).                    *)
(* The environment of a run:                                               *)
(*   argc        len(sys.argv); the report path is argv[4], the chart      *)
(*               path argv[5],                                             *)
(*   charts      number of files "*_chart.png" in the report's directory,  *)
(*   chart_file  the chart path given names an existing file,              *)
(*   post        what requests.post of the message does: the HTTP status   *)
(*               of the response, or "raise".                              *)
(***************************************************************************)
MaxCharts == 2

DiscordEnvs ==
    [argc : 1..6, charts : 0..MaxCharts, chart_file : BOOLEAN, post : {"204", "400", "raise"}]

ReportGiven(env) == env.argc > 4

ChartGiven(env) == env.argc > 5

\* find_charts, lines 72-78: date_str is never empty, and for every chart the
\* filter evaluates datetime.timedelta on the class datetime (line 8:
\* "from datetime import datetime"), an AttributeError.
FindChartsRaises(env) == env.charts > 0

DiscordInit ==
    /\ OldIdle
    /\ RunIdle /\ RenderIdle /\ ExitIdle /\ OptIdle /\ EmailIdle
    /\ d_env \in DiscordEnvs
    /\ d_chart = ""
    /\ d_post = ""
    /\ d_exit = NoneVal
    /\ d_pc = "start"

DiscordFrame == <<OldFrame, runVars, renderVars, exitVars, optVars, emailVars>>

\* main() up to the call of send_discord_message.  An exception that leaves
\* main() ends the process with a traceback and exit status 1.
DiscordArgs ==
    /\ d_pc = "start"
    /\ IF d_env.argc < 3
         THEN d_exit' = 1 /\ d_pc' = "exited" /\ UNCHANGED d_chart
       ELSE IF ~ChartGiven(d_env) /\ ReportGiven(d_env)
         THEN IF FindChartsRaises(d_env)
              THEN d_exit' = 1 /\ d_pc' = "raised" /\ UNCHANGED d_chart
              ELSE /\ d_chart' = IF d_env.charts > 0 THEN "found" ELSE ""
                   /\ d_pc' = "send"
                   /\ UNCHANGED d_exit
       ELSE /\ d_chart' = IF ChartGiven(d_env) THEN "given" ELSE ""
            /\ d_pc' = "send"
            /\ UNCHANGED d_exit
    /\ UNCHANGED <<d_env, d_post>>
    /\ UNCHANGED DiscordFrame

\* send_discord_message and sys.exit(0 if success else 1): the upload of the
\* chart cannot raise out of its try; success iff the post answers 204.
DiscordSend ==
    /\ d_pc = "send"
    /\ d_post' = d_env.post
    /\ d_exit' = IF d_env.post = "204" THEN 0 ELSE 1
    /\ d_pc' = "exited"
    /\ UNCHANGED <<d_env, d_chart>>
    /\ UNCHANGED DiscordFrame

DiscordNext == DiscordArgs \/ DiscordSend

SpecDiscord == DiscordInit /\ [][DiscordNext]_vars

DiscordEnded == d_pc \in {"exited", "raised"}

\* C29: with a report path and no chart path, main() takes the first chart of
\* the report's directory and sends the message; the message is posted
\* whatever happens to the chart, and the exit status is 0 iff the post
\* answered 204.
C29_MessagePostedWhateverTheChart ==
    DiscordEnded /\ d_env.argc >= 3 =>
        /\ d_post # ""
        /\ d_exit = 0 <=> d_post = "204"
        /\ ReportGiven(d_env) /\ ~ChartGiven(d_env) /\ d_env.charts > 0 => d_chart = "found"

(***************************************************************************)
(* send_email.py: send_email (lines 77-132).                               *)
(* The environment of a call:                                              *)
(*   login_ok  os.getlogin() succeeds (it raises OSError without a         *)
(*             controlling terminal),                                      *)
(*   image     create_report_image returned a path,                        *)
(*   sendmail  the pipe to sendmail: "ok" (close() returns None),          *)
(*             "nonzero" (close() returns an exit status), "raised",       *)
(*   eml_ok, txt_ok  the fallback files can be written.                    *)
(***************************************************************************)
EmailEnvs ==
    [login_ok : BOOLEAN, image : BOOLEAN, sendmail : {"ok", "nonzero", "raised"},
     eml_ok : BOOLEAN, txt_ok : BOOLEAN]

\* Mutant of SendmailSucceeded: the close status is never taken as a success.
SendmailNeverSucceeds(outcome) == FALSE

\* status = p.close(); if status is None: return True
SendmailSucceeded(outcome) == outcome = "ok"

EmailInit ==
    /\ OldIdle
    /\ RunIdle /\ RenderIdle /\ ExitIdle /\ OptIdle /\ DiscordIdle
    /\ e_env \in EmailEnvs
    /\ e_sendmail = ""
    /\ e_written = {}
    /\ e_ret = ""
    /\ e_pc = "start"

EmailFrame == <<OldFrame, runVars, renderVars, exitVars, optVars, discordVars>>

\* Lines 82-99: the image and the message; nothing here is inside a try.
EmailCompose ==
    /\ e_pc = "start"
    /\ e_pc' = IF e_env.login_ok THEN "sendmail" ELSE "raised"
    /\ UNCHANGED <<e_env, e_sendmail, e_written, e_ret>>
    /\ UNCHANGED EmailFrame

\* Lines 101-111, "Tentative 1".
EmailSendmail ==
    /\ e_pc = "sendmail"
    /\ e_sendmail' = e_env.sendmail
    /\ IF SendmailSucceeded(e_env.sendmail)
         THEN e_ret' = "True" /\ e_pc' = "returned"
         ELSE e_pc' = "fallback" /\ UNCHANGED e_ret
    /\ UNCHANGED <<e_env, e_written>>
    /\ UNCHANGED EmailFrame

\* Lines 113-132, "Tentative 2": the .eml file, then the .txt file.
EmailFallback ==
    /\ e_pc = "fallback"
    /\ e_written' = IF ~e_env.eml_ok THEN {}
                    ELSE IF ~e_env.txt_ok THEN {"eml"}
                    ELSE {"eml", "txt"}
    /\ e_ret' = IF e_env.eml_ok /\ e_env.txt_ok THEN "True" ELSE "False"
    /\ e_pc' = "returned"
    /\ UNCHANGED <<e_env, e_sendmail>>
    /\ UNCHANGED EmailFrame

EmailNext == EmailCompose \/ EmailSendmail \/ EmailFallback

SpecEmail == EmailInit /\ [][EmailNext]_vars

SendmailFailed == e_sendmail \in {"nonzero", "raised"}

\* C30: sendmail is attempted first; the fallback files are written only
\* after a sendmail attempt that did not succeed; the result is True iff
\* sendmail succeeded or both fallback files were written, and False only
\* when sendmail failed and the fallback did not complete.
C30_SendmailFirstThenFallback ==
    /\ e_written # {} => SendmailFailed
    /\ e_ret # "" => e_sendmail # ""
    /\ e_ret = "True" <=>
           \/ e_sendmail = "ok"
           \/ SendmailFailed /\ e_written = {"eml", "txt"}
    /\ e_ret = "False" => SendmailFailed /\ e_written # {"eml", "txt"}
    /\ e_pc = "returned" => e_ret \in {"True", "False"}

C30_Witness ==
    /\ e_pc = "returned"
    /\ e_sendmail = "nonzero"
    /\ e_written = {"eml", "txt"}
    /\ e_ret = "True"

=============================================================================
